---- MODULE Spec2Model ----
(***************************************************************************)
(* Model of contentchecker.py: the batched, concurrent two-stage lookup    *)
(* (process_skus -> fetch_product_page -> check_product_content).          *)
(*                                                                         *)
(* Strings built by concatenation are sequences of fragments, so           *)
(* base_url + href is <<base_url>> \o <<href>>.  A coroutine is a record   *)
(* holding its position (pc) and its locals; the event loop interleaves    *)
(* the coroutines at their awaits (an HTTP request, the backoff sleep).    *)
(*                                                                         *)
(* Every coroutine of a batch is modelled with its control state and the   *)
(* locals it goes on to use.  What the network saw of one identifier (its  *)
(* requests, sleeps and the answers it got) is a history, kept in the      *)
(* coroutine's trace field for the position obs; Init chooses obs freely   *)
(* among the positions of the list, so a property of the trace is a        *)
(* property of every position.  The trace goes with the coroutine when     *)
(* as_completed hands its result to process_skus.                          *)
(***************************************************************************)
EXTENDS Integers, Sequences, FiniteSets, TLC

\* ---------------------------------------------------------------- bounds
MaxCodes == 3

\* ------------------------------------------------------------- constants
BATCH_SIZE == 2

RETRY_COUNT == 3

\* --------------------------------------------------------------- inputs
Codes == {"111", "222"}

Options == {"efacil", "martins", "outro"}

Hrefs == {"/p/1"}

\* 'lp-container', as the fragments a page is made of
Marker == <<"lp-", "container">>

\* a local that holds nothing yet
Unbound == <<>>

NoResult == <<>>

NoTag == <<[name |-> "unbound", attrs |-> [id |-> <<>>]]>>

NoBody == <<"unbound">>

\* the base_urls table of process_skus
base_urls ==
  [martins |-> "https://www.martinsatacado.com.br",
   efacil  |-> "https://www.efacil.com.br"]

BaseUrlOfDefault(opt) ==
  IF opt \in DOMAIN base_urls THEN base_urls[opt] ELSE base_urls.efacil

\* base_urls.get(option, "")
BaseUrlOf(opt) ==
  IF opt \in DOMAIN base_urls THEN base_urls[opt] ELSE ""

\* f"{base_url}/loja/busca/?searchTerm={code}"
SearchUrl(base_url, code) == <<base_url, "/loja/busca/?searchTerm=", code>>

\* base_url + link_tag['href']
ProductUrl(base_url, href) == <<base_url>> \o <<href>>

\* f'btn_skuP{code}'
LinkId(code) == <<"btn_skuP", code>>

\* an element of a parsed page: its tag name and its attributes
Elem(name, attrs) == [name |-> name, attrs |-> attrs]

\* the search pages the site may answer with (status 200)
Pages ==
  {<<>>}
  \cup {<<Elem("a", [id |-> LinkId(c)])>> : c \in Codes}
  \cup {<<Elem("div", [id |-> LinkId(c), href |-> h]),
          Elem("a", [id |-> LinkId(c), href |-> h])>> : c \in Codes, h \in Hrefs}

\* the product pages the site may answer with (status 200)
Bodies ==
  {<<"div">>, <<"div", "lp-", "container", "div">>, <<"lp-", "div", "container">>}

\* what one GET can end in: a response with a status and a body, a timeout
\* (asyncio.TimeoutError) or any other exception
SearchOutcomes ==
  [kind : {"response"}, status : {200}, body : Pages]
  \cup [kind : {"response"}, status : {500}, body : {<<>>}]
  \cup [kind : {"timeout", "exception"}, status : {0}, body : {<<>>}]

CheckOutcomes ==
  [kind : {"response"}, status : {200}, body : Bodies]
  \cup [kind : {"response"}, status : {404}, body : {<<"div">>}]
  \cup [kind : {"timeout", "exception"}, status : {0}, body : {<<"div">>}]

\* soup.find('a', id=...): the first element with that tag and id, or none
RECURSIVE Find(_, _, _)
Find(page, name, id) ==
  IF page = <<>> THEN <<>>
  ELSE IF Head(page).name = name
          /\ "id" \in DOMAIN Head(page).attrs
          /\ Head(page).attrs.id = id
       THEN <<Head(page)>>
       ELSE Find(Tail(page), name, id)

\* link_tag and link_tag.has_attr('href')
HasLink(link_tag) ==
  link_tag # <<>> /\ "href" \in DOMAIN link_tag[1].attrs

\* 'lp-container' in html
Contains(html, m) ==
  \E k \in 0..(Len(html) - Len(m)) : SubSeq(html, k + 1, k + Len(m)) = m

\* "Sim" if 'lp-container' in html else "Não" (written "Nao" here)
Classify(html) == IF Contains(html, Marker) THEN "Sim" ELSE "Nao"

VARIABLES
  option,     \* the site key given to process_skus
  codes,      \* the identifier list given to process_skus
  pc,         \* position of process_skus: "start", "loop", "collect", "done"
  i,          \* the index of the enumerate loop (0-based)
  tasks,      \* the tasks list: the positions in codes of its coroutines
  co,         \* position -> coroutine, from its creation until its result is taken
  doneq,      \* completed coroutines not yet yielded by as_completed
  results,    \* the results list
  progress,   \* the values progress_callback was called with, in order
  outcome,    \* how process_skus ended: "running", "returned", "raised"
  started,    \* positions whose coroutine has begun to run
  finished,   \* positions whose coroutine has returned or raised
  completion, \* the positions, in the order their coroutines ended
  obs,        \* the position whose history is kept
  origin,     \* the positions whose results were taken, in the order of results
  site        \* the outcomes the remote site may give each request

vars ==
  <<option, codes, pc, i, tasks, co, doneq, results, progress, outcome,
    started, finished, completion, obs, origin, site>>

\* the identifier lists of a run, of every length up to MaxCodes: two
\* identifiers taking turns, so a list of three or more holds a duplicate
CodeLists ==
  {[k \in 1..n |-> IF k % 2 = 1 THEN "111" ELSE "222"] : n \in 0..MaxCodes}

\* nothing has happened yet
NoTrace ==
  [log      |-> <<>>,     \* "search", "sleep", "check", in the order they began
   seen     |-> {},       \* the ways its search requests ended
   link_tag |-> NoTag,    \* what soup.find gave on the 200 search page
   check    |-> "none",   \* how the product request ended
   html     |-> NoBody]   \* the body of the 200 product page

\* fetch_product_page(session, base_url, code, option): the coroutine object,
\* not yet running
NewTask(base_url, code, opt) ==
  [pc          |-> "created",
   base_url    |-> base_url,
   code        |-> code,
   option      |-> opt,
   attempt     |-> 0,
   search_url  |-> Unbound,
   product_url |-> Unbound,
   result      |-> NoResult,
   trace       |-> NoTrace]

\* the search URLs and product URLs of the "efacil" site
SearchUrls == {SearchUrl(base_urls.efacil, c) : c \in Codes}

ProductUrls == {ProductUrl(base_urls.efacil, h) : h \in Hrefs}

\* a site that may give any outcome to any request
AnySite ==
  [search  |-> [u \in SearchUrls |-> SearchOutcomes],
   product |-> [u \in ProductUrls |-> CheckOutcomes]]

\* the state of process_skus at its first line, for any inputs
Begin ==
  /\ option \in Options
  /\ codes \in CodeLists
  /\ pc = "start"
  /\ i = 0
  /\ tasks = <<>>
  /\ co = <<>>
  /\ doneq = <<>>
  /\ results = <<>>
  /\ progress = <<>>
  /\ outcome = "running"
  /\ started = {}
  /\ finished = {}
  /\ completion = <<>>
  /\ origin = <<>>

Init ==
  /\ Begin
  /\ obs \in IF codes = <<>> THEN {0} ELSE 1..Len(codes)
  /\ site = AnySite

ResolveRaising ==
  /\ pc = "start"
  /\ IF BaseUrlOf(option) = ""
     THEN /\ pc' = "done"
          /\ outcome' = "raised"
     ELSE /\ pc' = "loop"
          /\ outcome' = outcome
  /\ UNCHANGED <<option, codes, i, tasks, co, doneq, results, progress,
                 started, finished, completion, obs, origin, site>>

\* process_skus, lines 123-134: resolve the base URL; unknown key: return []
Resolve ==
  /\ pc = "start"
  /\ IF BaseUrlOf(option) = ""
     THEN /\ pc' = "done"
          /\ outcome' = "returned"
     ELSE /\ pc' = "loop"
          /\ outcome' = outcome
  /\ UNCHANGED <<option, codes, i, tasks, co, doneq, results, progress,
                 started, finished, completion, obs, origin, site>>

BatchReadyLate(n, idx, total) == n > BATCH_SIZE \/ idx = total - 1

\* len(tasks) >= BATCH_SIZE or i == len(codes) - 1
BatchReady(n, idx, total) == n >= BATCH_SIZE \/ idx = total - 1

\* one iteration of the enumerate loop up to the batch test, lines 134-136
Dispatch ==
  /\ pc = "loop"
  /\ i < Len(codes)
  /\ tasks' = Append(tasks, i + 1)
  /\ co' = (i + 1) :> NewTask(BaseUrlOf(option), codes[i + 1], option) @@ co
  /\ IF BatchReady(Len(tasks) + 1, i, Len(codes))
     THEN pc' = "collect" /\ i' = i
     ELSE pc' = "loop" /\ i' = i + 1
  /\ UNCHANGED <<option, codes, doneq, results, progress, outcome,
                 started, finished, completion, obs, origin, site>>

\* the loop is exhausted: leave the session and return results, line 143
Return ==
  /\ pc = "loop"
  /\ i >= Len(codes)
  /\ pc' = "done"
  /\ outcome' = "returned"
  /\ UNCHANGED <<option, codes, i, tasks, co, doneq, results, progress,
                 started, finished, completion, obs, origin, site>>

ProgressValueCompletions(idx, n) == n + 1

ProgressValueIndex(idx, n) == idx

\* the argument of progress_callback, line 140: i + 1, whatever the number n
\* of results
ProgressValue(idx, n) == idx + 1

\* co without the coroutine at position p
Without(p) == [q \in DOMAIN co \ {p} |-> co[q]]

YieldedLast(q) == Len(q)

\* the place in the queue of finished coroutines of the one as_completed
\* yields next, line 137: the one that finished first
Yielded(q) == 1

\* sequence q with its k-th element removed
Remove(q, k) == SubSeq(q, 1, k - 1) \o SubSeq(q, k + 1, Len(q))

\* as_completed yields the next finished coroutine, lines 137-141
Collect ==
  /\ pc = "collect"
  /\ doneq # <<>>
  /\ LET p == doneq[Yielded(doneq)]
     IN IF co[p].pc = "raised"
        THEN \* "result = await task" raises: the exception leaves process_skus
             /\ pc' = "done"
             /\ outcome' = "raised"
             /\ doneq' = Remove(doneq, Yielded(doneq))
             /\ UNCHANGED <<i, tasks, co, results, progress, origin>>
        ELSE /\ results' = Append(results, co[p].result)
             /\ origin' = Append(origin, p)
             /\ progress' = Append(progress, ProgressValue(i, Len(results)))
             /\ doneq' = Remove(doneq, Yielded(doneq))
             /\ co' = Without(p)
             /\ IF DOMAIN co = {p}
                THEN \* the batch is drained: tasks.clear(), next iteration
                     /\ tasks' = <<>>
                     /\ i' = i + 1
                     /\ pc' = "loop"
                ELSE UNCHANGED <<tasks, i, pc>>
             /\ outcome' = outcome
  /\ UNCHANGED <<option, codes, started, finished, completion, obs, site>>

\* coroutine t with its history set to h, when p is the observed position
Traced(p, t, h) == IF p = obs THEN [t EXCEPT !.trace = h] ELSE t

\* how a request ended: "ok" (status 200), "status", "timeout", "exception"
Ending(r) ==
  IF r.kind = "response" THEN (IF r.status = 200 THEN "ok" ELSE "status")
  ELSE r.kind

\* the coroutine returns r
Returned(p, t, r, h) ==
  /\ co' = [co EXCEPT ![p] =
                 Traced(p, [t EXCEPT !.pc = "returned", !.result = r], h)]
  /\ doneq' = Append(doneq, p)
  /\ finished' = finished \cup {p}
  /\ completion' = Append(completion, p)

\* the coroutine waits: for the answer to a GET ("search", "check") or for
\* the end of asyncio.sleep ("sleep")
Waiting(p, t, stage, h) ==
  /\ co' = [co EXCEPT ![p] =
                 Traced(p, [t EXCEPT !.pc = stage], [h EXCEPT !.log = Append(@, stage)])]
  /\ UNCHANGED <<doneq, finished, completion>>

SearchUrlForLoopCode(t) ==
  IF t.option = "efacil" THEN SearchUrl(t.base_url, codes[i + 1]) ELSE Unbound

\* the search URL fetch_product_page builds, lines 46-47: bound for "efacil" only
SearchUrlFor(t) ==
  IF t.option = "efacil" THEN SearchUrl(t.base_url, t.code) ELSE Unbound

\* fetch_product_page from its first line to its first await, lines 46-51
TaskStart(p) ==
  /\ pc = "collect"
  /\ p \in DOMAIN co
  /\ co[p].pc = "created"
  /\ started' = started \cup {p}
  /\ LET t == co[p]
         url == SearchUrlFor(t)
     IN IF url = Unbound
        THEN \* search_url is unbound: session.get(search_url) raises inside the
             \* try, and the handler's f"...{search_url}..." raises again
             /\ co' = [co EXCEPT ![p] = [t EXCEPT !.pc = "raised"]]
             /\ doneq' = Append(doneq, p)
             /\ finished' = finished \cup {p}
             /\ completion' = Append(completion, p)
        ELSE Waiting(p, [t EXCEPT !.search_url = url], "search", t.trace)
  /\ UNCHANGED <<option, codes, pc, i, tasks, results, progress, outcome, obs, origin, site>>

\* check_product_content is entered: its GET is sent, lines 62-63 and 93-94
EnterCheck(p, t, href, h) ==
  Waiting(p, [t EXCEPT !.product_url = ProductUrl(t.base_url, href)], "check", h)

NoLinkRetry(p, t, h) == Waiting(p, t, "sleep", h)

\* no usable link on the 200 search page, lines 64-66
NoLink(p, t, h) == Returned(p, t, <<t.code, t.search_url, "Erro">>, h)

\* the search request ends, lines 51-71
SearchRespond(p, r) ==
  /\ pc = "collect"
  /\ p \in DOMAIN co
  /\ co[p].pc = "search"
  /\ r \in site.search[co[p].search_url]
  /\ LET t == co[p]
         h == [t.trace EXCEPT !.seen = @ \cup {Ending(r)}]
     IN IF r.kind = "response" /\ r.status = 200
        THEN IF t.option = "efacil"
             THEN LET link_tag == Find(r.body, "a", LinkId(t.code))
                      hl == [h EXCEPT !.link_tag = link_tag]
                  IN IF HasLink(link_tag)
                     THEN EnterCheck(p, t, link_tag[1].attrs.href, hl)
                     ELSE NoLink(p, t, hl)
             ELSE \* not "efacil", line 59
                  Returned(p, t, <<t.code, t.search_url, "Erro">>, h)
        ELSE \* not 200, a timeout or an exception: on to the sleep of line 71
             Waiting(p, t, "sleep", h)
  /\ UNCHANGED <<option, codes, pc, i, tasks, results, progress, outcome, started, obs, origin, site>>

MoreAttemptsExtra(attempt) == attempt + 1 <= RETRY_COUNT

MoreAttemptsFewer(attempt) == attempt + 1 < RETRY_COUNT - 1

\* range(retries): is there another attempt after this one
MoreAttempts(attempt) == attempt + 1 < RETRY_COUNT

\* the backoff sleep ends: next attempt, or line 72
SleepDone(p) ==
  /\ pc = "collect"
  /\ p \in DOMAIN co
  /\ co[p].pc = "sleep"
  /\ LET t == co[p]
     IN IF MoreAttempts(t.attempt)
        THEN Waiting(p, [t EXCEPT !.attempt = @ + 1], "search", t.trace)
        ELSE Returned(p, t, <<t.code, t.search_url, "Erro">>, t.trace)
  /\ UNCHANGED <<option, codes, pc, i, tasks, results, progress, outcome, started, obs, origin, site>>

CheckResultSearchUrl(t, r) ==
  IF r.kind = "response" /\ r.status = 200
  THEN <<t.code, t.product_url, Classify(r.body)>>
  ELSE <<t.code, t.search_url, "Erro">>

CheckResultAnyStatus(t, r) ==
  IF r.kind = "response"
  THEN <<t.code, t.product_url, Classify(r.body)>>
  ELSE <<t.code, t.product_url, "Erro">>

\* check_product_content's result for one outcome of its GET, lines 93-102
CheckResult(t, r) ==
  IF r.kind = "response" /\ r.status = 200
  THEN <<t.code, t.product_url, Classify(r.body)>>
  ELSE <<t.code, t.product_url, "Erro">>

CheckRespondFallsThrough(p, r) ==
  /\ pc = "collect"
  /\ p \in DOMAIN co
  /\ co[p].pc = "check"
  /\ r \in site.product[co[p].product_url]
  /\ LET t == co[p]
         h == [t.trace EXCEPT
                 !.check = Ending(r),
                 !.html = IF Ending(r) = "ok" THEN r.body ELSE @]
     IN IF Ending(r) = "ok"
        THEN Returned(p, t, CheckResult(t, r), h)
        ELSE Waiting(p, t, "sleep", h)
  /\ UNCHANGED <<option, codes, pc, i, tasks, results, progress, outcome, started, obs, origin, site>>

\* the product request ends, lines 94-102, and fetch_product_page returns it
CheckRespond(p, r) ==
  /\ pc = "collect"
  /\ p \in DOMAIN co
  /\ co[p].pc = "check"
  /\ r \in site.product[co[p].product_url]
  /\ LET t == co[p]
         h == [t.trace EXCEPT
                 !.check = Ending(r),
                 !.html = IF Ending(r) = "ok" THEN r.body ELSE @]
     IN Returned(p, t, CheckResult(t, r), h)
  /\ UNCHANGED <<option, codes, pc, i, tasks, results, progress, outcome, started, obs, origin, site>>

Next ==
  \/ Resolve
  \/ Dispatch
  \/ Return
  \/ Collect
  \/ \E p \in 1..MaxCodes : TaskStart(p)
  \/ \E p \in 1..MaxCodes, r \in SearchOutcomes : SearchRespond(p, r)
  \/ \E p \in 1..MaxCodes : SleepDone(p)
  \/ \E p \in 1..MaxCodes, r \in CheckOutcomes : CheckRespond(p, r)

Spec == Init /\ [][Next]_vars

\* a run in which no position's history is kept: the scheduler alone
InitScheduler ==
  /\ Begin
  /\ obs = 0
  /\ site = AnySite

SpecScheduler == InitScheduler /\ [][Next]_vars

\* the sites that do not change: one outcome for each URL, on every request
FixedSites ==
  {[search  |-> [u \in SearchUrls |-> {f[u]}],
    product |-> [u \in ProductUrls |-> {g[u]}]] :
     f \in [SearchUrls -> SearchOutcomes], g \in [ProductUrls -> CheckOutcomes]}

\* a run against a site that does not change; no position's history is kept
InitFixed ==
  /\ Begin
  /\ obs = 0
  /\ site \in FixedSites

SpecFixed == InitFixed /\ [][Next]_vars

\* ------------------------------------------------------------ vocabulary
\* the site key is in the base_urls table
ValidKey == option \in DOMAIN base_urls

\* what the caller of process_skus gets
Observed == [outcome |-> outcome, results |-> results]

\* the three textual tags of a record
Classifications == {"Sim", "Nao", "Erro"}

\* how often e occurs in sequence s
Count(s, e) == Cardinality({k \in 1..Len(s) : s[k] = e})

\* the identifiers of the records, in order
Identifiers(rs) == [k \in 1..Len(rs) |-> rs[k][1]]

\* the observed coroutine exists, and has returned
ObsLive == obs \in DOMAIN co

ObsReturned == ObsLive /\ co[obs].pc = "returned"

\* the search URL of the observed position, from the inputs alone
ObsSearchUrl == <<base_urls[option], "/loja/busca/?searchTerm=", codes[obs]>>

\* ---------------------------------------------------------------- claims

\* C1: for a site key of the base_urls table and any identifier list,
\* process_skus returns exactly one record per input identifier: as many
\* records as identifiers, with the same identifiers as often.
C1_ValidKeyReturnsAllRecords ==
  (pc = "done" /\ ValidKey) =>
    /\ outcome = "returned"
    /\ Len(results) = Len(codes)
    /\ \A c \in Codes : Count(Identifiers(results), c) = Count(codes, c)

\* C2: for a site key of the base_urls table, no coroutine of
\* fetch_product_page ends by raising: each that ends has returned one record
\* whose classification is one of the three tags.
C2_NoExceptionEscapes ==
  ValidKey =>
    \A p \in DOMAIN co \cap finished :
      /\ co[p].pc = "returned"
      /\ Len(co[p].result) = 3
      /\ co[p].result[3] \in Classifications

\* C3: for a site key outside the base_urls table nothing is processed: no
\* coroutine is ever created (so no request is sent and no sleep begins), no
\* record is produced, progress_callback is never called, and the run ends
\* by returning.
C3_UnknownKeyProcessesNothing ==
  ~ValidKey =>
    /\ tasks = <<>> /\ co = <<>> /\ doneq = <<>>
    /\ started = {} /\ finished = {}
    /\ results = <<>>
    /\ progress = <<>>
    /\ outcome = (IF pc = "done" THEN "returned" ELSE "running")

C3_Witness == pc = "done" /\ ~ValidKey /\ Len(codes) = MaxCodes

SleepBetween(log) ==
  \A a, b \in 1..Len(log) :
    (a < b /\ log[a] = "search" /\ log[b] = "search") =>
      \E k \in (a + 1)..(b - 1) : log[k] = "sleep"

\* C5: an identifier all of whose search requests time out gets exactly
\* RETRY_COUNT search requests, with a backoff sleep between each two of
\* them, no product request, and the record (identifier, search URL, Erro).
C5_AllTimeoutsExhaustRetries ==
  (ObsReturned /\ co[obs].trace.seen = {"timeout"}) =>
    LET log == co[obs].trace.log
    IN /\ Count(log, "search") = RETRY_COUNT
       /\ SleepBetween(log)
       /\ Count(log, "check") = 0
       /\ co[obs].result = <<codes[obs], ObsSearchUrl, "Erro">>

C5_Witness ==
  ObsReturned /\ co[obs].trace.seen = {"timeout"} /\ Len(results) > 0

\* C6, as claimed: an identifier all of whose search requests get a non-200
\* status ends with the record (identifier, search URL, Erro) after exactly
\* RETRY_COUNT - 1 backoff sleeps, the record following the last request.
C6_AllNon200TwoSleeps ==
  (ObsReturned /\ co[obs].trace.seen = {"status"}) =>
    LET log == co[obs].trace.log
    IN /\ co[obs].result = <<codes[obs], ObsSearchUrl, "Erro">>
       /\ Count(log, "search") = RETRY_COUNT
       /\ Count(log, "sleep") = RETRY_COUNT - 1
       /\ log[Len(log)] = "search"

\* the element soup.find gave is an anchor with an href
Usable(link_tag) ==
  /\ Len(link_tag) = 1
  /\ link_tag[1].name = "a"
  /\ "href" \in DOMAIN link_tag[1].attrs

\* C7: an identifier whose search request is answered 200 by a page with no
\* anchor keyed by it, or with one that has no href, gets exactly one search
\* request, no sleep, no product request and the record
\* (identifier, search URL, Erro).
C7_MissingLinkNoRetry ==
  (ObsReturned /\ co[obs].trace.seen = {"ok"} /\ ~Usable(co[obs].trace.link_tag)) =>
    /\ co[obs].trace.log = <<"search">>
    /\ co[obs].result = <<codes[obs], ObsSearchUrl, "Erro">>

C7_Witness ==
  /\ ObsReturned
  /\ co[obs].trace.seen = {"ok"}
  /\ Len(co[obs].trace.link_tag) = 1
  /\ ~Usable(co[obs].trace.link_tag)

MarkerIn(html) ==
  \E k \in 1..(Len(html) - 1) : html[k] = "lp-" /\ html[k + 1] = "container"

InFlight == {p \in DOMAIN co : co[p].pc \in {"search", "sleep", "check"}}

\* the batch of position p: contiguous runs of BATCH_SIZE positions
Group(p) == (p - 1) \div BATCH_SIZE

\* C10: at most BATCH_SIZE coroutines exist at a time, and none of a batch
\* has begun before every coroutine of the batches before it has returned
\* and had its record taken.
C10_BoundedBatches ==
  /\ Cardinality(DOMAIN co) <= BATCH_SIZE
  /\ Cardinality(InFlight) <= BATCH_SIZE
  /\ \A p \in DOMAIN co, q \in DOMAIN co : Group(p) = Group(q)
  /\ \A p \in started, q \in 1..Len(codes) :
       Group(q) < Group(p) => (q \in finished /\ q \notin DOMAIN co)

C10_Witness ==
  /\ Len(results) = BATCH_SIZE
  /\ \E p \in InFlight : Group(p) = 1

\* s is an initial part of t
IsPrefix(s, t) == Len(s) <= Len(t) /\ SubSeq(t, 1, Len(s)) = s

\* C11: the records are in (batch, completion) order: the k-th record is the
\* record of the k-th coroutine to end, it carries the identifier at that
\* coroutine's position, no position gives two records, and every record of
\* a batch precedes every record of a later batch.
C11_GroupThenCompletionOrder ==
  /\ Len(origin) = Len(results)
  /\ IsPrefix(origin, completion)
  /\ \A k \in 1..Len(origin) :
       /\ origin[k] \in 1..Len(codes)
       /\ results[k][1] = codes[origin[k]]
  /\ \A j \in 1..Len(origin), k \in 1..Len(origin) :
       j < k => (origin[j] # origin[k] /\ Group(origin[j]) <= Group(origin[k]))

\* a finished run whose first batch was recorded against submission order
C11_Witness ==
  /\ pc = "done"
  /\ outcome = "returned"
  /\ Len(results) = Len(codes)
  /\ Len(origin) > BATCH_SIZE
  /\ origin[1] > origin[2]
  /\ Identifiers(results) # codes

\* C12: progress_callback has been called once for each record taken, and a
\* run over N identifiers under a key of base_urls ends with N calls made.
C12_OneCallPerCompletion ==
  /\ Len(progress) = Len(results)
  /\ (pc = "done" /\ ValidKey) => Len(progress) = Len(codes)

\* the elements of sequence s
Range(s) == {s[k] : k \in 1..Len(s)}

\* the positions a coroutine has been created for
Dispatched == Range(origin) \cup DOMAIN co

\* C13: when a run under a key of base_urls has ended, every identifier a
\* coroutine was created for has a record with a classification: no run
\* stops with some dispatched identifier unclassified.
C13_EndsWithAllClassified ==
  (pc = "done" /\ ValidKey) =>
    \A p \in Dispatched :
      \E k \in 1..Len(origin) :
        origin[k] = p /\ results[k][3] \in Classifications

\* the coroutine at position p has ended in a failure: an exception, or a
\* record classified Erro
Failed(p) ==
  \/ p \in DOMAIN co /\ co[p].pc = "raised"
  \/ p \in DOMAIN co /\ co[p].pc = "returned" /\ co[p].result[3] = "Erro"
  \/ \E k \in 1..Len(origin) : origin[k] = p /\ results[k][3] = "Erro"

\* C14: a failure at one position takes no record away from another: when
\* the run has ended, every position other than the failed one has its
\* record, whether of the same batch or of a later one.
C14_FailureSparesSiblings ==
  \A p \in 1..Len(codes) :
    (Failed(p) /\ pc = "done") =>
      \A q \in 1..Len(codes) \ {p} : q \in Range(origin)

\* the outcome an unchanging site gives to every request of one URL
Only(S) == CHOOSE r \in S : TRUE

Good(r) == r.kind = "response" /\ r.status = 200

\* the classification the site alone fixes for an identifier: that of the
\* product page its search page links to under the identifier's own anchor
Expected(code) ==
  LET s == Only(site.search[SearchUrl(base_urls.efacil, code)])
      a == IF Good(s) THEN Find(s.body, "a", LinkId(code)) ELSE <<>>
  IN IF a # <<>> /\ "href" \in DOMAIN a[1].attrs
     THEN LET c == Only(site.product[ProductUrl(base_urls.efacil, a[1].attrs.href)])
          IN IF ~Good(c) THEN "Erro"
             ELSE IF MarkerIn(c.body) THEN "Sim" ELSE "Nao"
     ELSE "Erro"

\* C15: against a site that does not change, the classification of every
\* record is a function of the site and the identifier alone, whatever the
\* interleaving of the coroutines: two runs over the same list give each
\* occurrence of an identifier the same classification, and two occurrences
\* of one identifier in a run get the same one.
C15_ClassificationFixedBySite ==
  /\ \A k \in 1..Len(results) : results[k][3] = Expected(results[k][1])
  /\ \A j \in 1..Len(results), k \in 1..Len(results) :
       results[j][1] = results[k][1] => results[j][3] = results[k][3]

\* a finished run against an unchanging site, recorded against submission
\* order, in which the two identifiers are classified differently
C15_Witness ==
  /\ pc = "done"
  /\ Len(results) = MaxCodes
  /\ origin[1] > origin[2]
  /\ \E j \in 1..Len(results), k \in 1..Len(results) :
       /\ j # k
       /\ results[j][1] = results[k][1]
       /\ results[j][3] = "Sim"
  /\ \E k \in 1..Len(results) : results[k][3] = "Erro"

Min(a, b) == IF a <= b THEN a ELSE b

\* the 1-based position of the last identifier of the batch of position p
LastOfGroup(p) == Min((Group(p) + 1) * BATCH_SIZE, Len(codes))

RecordOfLastAttempt ==
  LET tr == co[obs].trace
  IN IF Usable(tr.link_tag)
     THEN <<codes[obs],
            <<"https://www.efacil.com.br", tr.link_tag[1].attrs.href>>,
            IF tr.check # "ok" THEN "Erro"
            ELSE IF MarkerIn(tr.html) THEN "Sim" ELSE "Nao">>
     ELSE <<codes[obs], ObsSearchUrl, "Erro">>

\* C18: when the k-th search request of an identifier is the first answered
\* 200, k is at most RETRY_COUNT, the requests before it are each followed by
\* one sleep (k requests, k - 1 sleeps, alternating), nothing but the product
\* request follows it, and the record is the one that answer determines,
\* whatever the failures before it were.
C18_RetryThenSuccess ==
  (ObsLive /\ "ok" \in co[obs].trace.seen) =>
    LET log == co[obs].trace.log
        k == Count(log, "search")
    IN /\ k \in 1..RETRY_COUNT
       /\ Count(log, "sleep") = k - 1
       /\ \A n \in 1..(2 * k - 1) :
            log[n] = IF n % 2 = 1 THEN "search" ELSE "sleep"
       /\ Len(log) <= 2 * k
       /\ Len(log) = 2 * k => log[2 * k] = "check"
       /\ co[obs].pc \in {"check", "returned"}
       /\ co[obs].pc = "returned" => co[obs].result = RecordOfLastAttempt

\* two failed requests of different kinds, then a 200 on the last attempt
\* allowed, and a record classified Sim
C18_Witness ==
  /\ ObsReturned
  /\ co[obs].trace.seen = {"timeout", "status", "ok"}
  /\ Count(co[obs].trace.log, "search") = RETRY_COUNT
  /\ Count(co[obs].trace.log, "sleep") = RETRY_COUNT - 1
  /\ co[obs].result[3] = "Sim"

\* the observed coroutine has sent the product request
ObsChecked == Count(co[obs].trace.log, "check") > 0

====
